---- MODULE Spec2Model ----
(***************************************************************************)
(* Model of the public SQL execution endpoint                              *)
(* (redash/handlers/custom_sql_api.py, PublicSQLExecutionResource.post)    *)
(* together with the storage-runner registry                               *)
(* (redash/storage_runner/__init__.py, register_storage) and the job queue *)
(* and result store the endpoint talks to.                                 *)
(*                                                                         *)
(* post() blocks in sleep(1) in the middle of each iteration of its loop,   *)
(* so one call of post() is several atomic steps here, split at the points *)
(* where the worker can run in between:                                    *)
(*   Submit  lines 55-83   get_json, validation, data source lookup,       *)
(*                         enqueue_query                                   *)
(*   Sleep   lines 87-89   loop test, try_count += 1, sleep(1) begins      *)
(*   Refresh lines 89-90   sleep(1) returns, job.refresh()                 *)
(*   Finish  lines 87,91-103  loop exit, serialize_job, timeout check,     *)
(*                         result fetch                                    *)
(* Every step runs inside the try block of lines 54-112, so an exception   *)
(* of an external call ends the request through the except clauses.        *)
(* The logger calls (lines 91, 107, 111) change no state of the request;   *)
(* serialize_job(job), the argument of the one of line 91, returns or      *)
(* raises.                                                                 *)
(***************************************************************************)
EXTENDS Integers, Sequences, FiniteSets, TLC

\* ------------------------------------------------------------------ bounds

\* The concurrently handled requests (each is one call of post()).
Requests == {1, 2}

\* Number of persisted QueryResult rows a job may refer to.
NumResults == 2

\* Number of register_storage calls in one run of the registry.
MaxRegs == 3

\* ------------------------------------------------------ program constants

\* Python's None, as the value of job.result while no result is there.
None == 0

\* A loop that polls once more than the budget.
PollBudgetOffByOne == 10 + 1

\* while job.result is None and try_count < 10
PollBudget == 10

\* error_messages, lines 24-33
error_messages ==
  [ missing_fields         |-> "Request must include 'query' and 'db_name' fields.",
    missing_query          |-> "Request must include 'query' fields.",
    missing_db_name        |-> "Request must include 'db_name' fields.",
    database_not_found     |-> "Database name not found.",
    query_timeout          |-> "Query execution timeout.",
    query_execution_failed |-> "Query execution failed.",
    sql_syntax_error       |-> "SQL syntax error.",
    internal_server_error  |-> "Internal server error occurred. Please try again later." ]

\* ------------------------------------------------------------- environment

\* A request body as request.get_json() returns it: JSON null (Python None)
\* or a JSON object with any of the keys query, db_name and another key.
BodyKeys == {"query", "db_name", "other"}

DbNames == {"ds", "nosuch"}

NullBody == [null |-> TRUE, keys |-> {}, db_name |-> ""]

Bodies ==
  {NullBody}
  \cup {[null |-> FALSE, keys |-> k, db_name |-> ""] :
          k \in {s \in SUBSET BodyKeys : "db_name" \notin s}}
  \cup {[null |-> FALSE, keys |-> k, db_name |-> d] :
          k \in {s \in SUBSET BodyKeys : "db_name" \in s}, d \in DbNames}

\* The data_sources table: one configured backend, of type "minio".
DataSources == {[name |-> "ds", type |-> "minio"]}

\* What an external call (database, queue) does: it returns, or it raises
\* sqlalchemy's ProgrammingError, or it raises some other Exception.
Outcomes == {"ok", "ProgrammingError", "Exception"}

\* The text of a raised exception, as the except clauses log it.
ExceptionText(exc) == IF exc = "ProgrammingError"
                        THEN "(psycopg2.errors.SyntaxError) syntax error"
                        ELSE "Traceback (most recent call last)"

\* Values of job.result: None, the id of a QueryResult row (1..NumResults),
\* an id under which no row is persisted (MissingRef), or the error value
\* of a job whose backend rejected the command (ErrorValue).
ResultRefs == 1..NumResults
MissingRef == NumResults + 1
ErrorValue == NumResults + 2
JobResults == ResultRefs \cup {MissingRef}

\* The persisted TabularResult under a result id: QueryResult.data.
Columns == << [name |-> "object_name", type |-> "string"],
              [name |-> "size", type |-> "integer"] >>

QueryResultData(id) ==
  [ columns |-> Columns,
    rows    |-> [i \in 1..id |-> [object_name |-> i, size |-> 10 * id + i]] ]

\* models.QueryResult.query.get(id): the row, or None when there is none.
QueryResultGet(id) == IF id \in ResultRefs THEN {QueryResultData(id)} ELSE {}

\* ---------------------------------------------------------------- registry

\* The runner class of minio.py; enabled is whether the minio package
\* could be imported (lines 8-13).
MinioRunner(en) == [name |-> "MinIO", type |-> "minio", enabled |-> en]

\* Other runner classes register_storage may be called with: a stand-in
\* for the minio type, a class of the minio type whose dependency is
\* missing, and classes of two other types.
RunnerClasses ==
  { MinioRunner(TRUE),
    [name |-> "MinIOStub", type |-> "minio", enabled |-> TRUE],
    [name |-> "MinIOUnavailable", type |-> "minio", enabled |-> FALSE],
    [name |-> "S3", type |-> "s3", enabled |-> TRUE],
    [name |-> "AzureBlob", type |-> "azure", enabled |-> FALSE] }

RunnerTypes == {c.type : c \in RunnerClasses}

\* A register_storage that keeps the class registered first.
RegisterStorageFirstWins(reg, cls) ==
  IF cls.enabled /\ cls.type \notin DOMAIN reg
    THEN [t \in (DOMAIN reg) \cup {cls.type} |->
            IF t = cls.type THEN cls ELSE reg[t]]
    ELSE reg

\* A register_storage that does not ask the class whether it is enabled.
RegisterStorageUnconditional(reg, cls) ==
  [t \in (DOMAIN reg) \cup {cls.type} |-> IF t = cls.type THEN cls ELSE reg[t]]

\* register_storage, lines 91-104: storage_runners is a dict from type()
\* to the class.
RegisterStorage(reg, cls) ==
  IF cls.enabled
    THEN [t \in (DOMAIN reg) \cup {cls.type} |->
            IF t = cls.type THEN cls ELSE reg[t]]
    ELSE reg

\* ------------------------------------------------------------------- state

VARIABLES
  storage_runners,  \* the registry dict of storage_runner/__init__.py
  req,              \* per request: the locals of post() and its response
  jobs,             \* the queue subsystem: job id -> the job as the worker sees it
  regs,             \* the calls of register_storage so far, in order (their argument)
  rn                \* a runner instance, its backend and its last call

vars == <<storage_runners, req, jobs, regs, rn>>

\* No runner instance: the request handler never makes one.
NoRunner == [op |-> "none"]

NoResponse == [code |-> 0]

\* error_response, lines 35-41
ErrorResponse(message, http_status) ==
  [code |-> http_status, status |-> "fail", message |-> message]

\* A success response that carries the column descriptors before the rows.
SuccessResponseWithColumns(query_result) ==
  [code |-> 200, status |-> "success",
   result |-> query_result.columns \o query_result.rows]

\* line 101: jsonify({"status": "success", "result": query_result.data["rows"]}), 200
SuccessResponse(query_result) ==
  [code |-> 200, status |-> "success", result |-> query_result.rows]

\* Except clauses that answer with the text of the exception.
ExceptResponseLeaky(exc) == ErrorResponse(ExceptionText(exc), 500)

\* The except clauses, lines 105-112.
ExceptResponse(exc) ==
  IF exc = "ProgrammingError"
    THEN ErrorResponse(error_messages.sql_syntax_error, 400)
    ELSE ErrorResponse(error_messages.internal_server_error, 500)

\* Lines 57-62: the validation of the body; "ok" when it passes.
ValidationError(query_data) ==
  IF query_data.null \/ query_data.keys = {} THEN "missing_fields"
  ELSE IF "query" \notin query_data.keys THEN "missing_query"
  ELSE IF "db_name" \notin query_data.keys THEN "missing_db_name"
  ELSE "ok"

\* A lookup that forgets the filter on the name.
LookupDataSourceUnfiltered(db_name) == DataSources

\* Lines 67-69: DataSource.query.filter(DataSource.name == db_name).first()
LookupDataSource(db_name) == {d \in DataSources : d.name = db_name}

\* A loop that polls for the whole budget, result or not.
LoopContinuesIgnoringResult(result, try_count) == try_count < PollBudget

\* A loop with no budget.
LoopContinuesUnbounded(result, try_count) == result = None

\* Line 87: the loop condition.
LoopContinues(result, try_count) == result = None /\ try_count < PollBudget

\* A refresh that reads the newest job of the queue instead of its own.
RefreshedLatest(id) == jobs[Len(jobs)]

\* Line 90: job.refresh() reloads the local job object from the queue;
\* the handler reads only its result (lines 87, 94, 98).
Refreshed(id) == jobs[id]

\* A missing result reported as a timeout.
MissingResultAsTimeout == ErrorResponse(error_messages.query_timeout, 408)

\* Line 103: a result reference under which no QueryResult row exists.
MissingResultResponse == ErrorResponse(error_messages.query_execution_failed, 500)

\* Line 95.
TimeoutResponse == ErrorResponse(error_messages.query_timeout, 408)

Init ==
  /\ \E en \in BOOLEAN :
       /\ storage_runners = RegisterStorage(<< >>, MinioRunner(en))
       /\ regs = << MinioRunner(en) >>
  /\ rn = NoRunner
  /\ \E b \in [Requests -> Bodies] :
       req = [r \in Requests |->
                [ pc |-> "Validating", body |-> b[r], enqueues |-> 0, job |-> None,
                  result |-> None, job_error |-> "none",
                  try_count |-> 0, sleeps |-> 0, refresh_calls |-> 0,
                  refreshes |-> 0, raised |-> "none", logged |-> "", response |-> NoResponse ]]
  /\ jobs = << >>

\* A request ends in an except clause (lines 105-112): the exception is
\* logged, the response is the clause's.
Raise(r, exc, locals) ==
  req' = [req EXCEPT ![r] = [locals EXCEPT !.pc = "Failed", !.raised = exc,
                                            !.logged = ExceptionText(exc),
                                            !.response = ExceptResponse(exc)]]

\* Lines 55-83: get_json, the validation, the data source lookup and
\* enqueue_query. The job enqueue_query returns may already hold its
\* result (a queue that runs the job at once).
Submit(r) ==
  /\ req[r].pc = "Validating"
  /\ LET query_data == req[r].body
         err == ValidationError(query_data)
         data_source == LookupDataSource(query_data.db_name)
     IN \E get_json \in {"ok", "Exception"}, lookup \in Outcomes, enqueue \in Outcomes :
          IF get_json # "ok"
            THEN Raise(r, get_json, req[r]) /\ UNCHANGED jobs
          ELSE IF err # "ok"
            THEN /\ req' = [req EXCEPT ![r].pc = "Rejected",
                                       ![r].response = ErrorResponse(error_messages[err], 400)]
                 /\ UNCHANGED jobs
          ELSE IF lookup # "ok"
            THEN Raise(r, lookup, req[r]) /\ UNCHANGED jobs
          ELSE IF data_source = {}
            THEN /\ req' = [req EXCEPT ![r].pc = "Rejected",
                                       ![r].response =
                                         ErrorResponse(error_messages.database_not_found, 404)]
                 /\ UNCHANGED jobs
          ELSE IF enqueue # "ok"
            THEN Raise(r, enqueue, [req[r] EXCEPT !.enqueues = @ + 1]) /\ UNCHANGED jobs
          ELSE \E first \in {None} \cup JobResults :
                 /\ jobs' = Append(jobs, [result |-> first, error |-> "none"])
                 /\ req' = [req EXCEPT ![r].pc = "Enqueued",
                                       ![r].enqueues = @ + 1,
                                       ![r].job = Len(jobs) + 1,
                                       ![r].result = first]
  /\ UNCHANGED <<storage_runners, regs, rn>>

\* Lines 87-89: the loop test passes, try_count += 1, and the request
\* waits in sleep(1) (sleeps counts the sleeps begun).
Sleep(r) ==
  /\ req[r].pc \in {"Enqueued", "Polling"}
  /\ LoopContinues(req[r].result, req[r].try_count)
  /\ req' = [req EXCEPT ![r].pc = "Sleeping", ![r].try_count = @ + 1,
                          ![r].sleeps = @ + 1]
  /\ UNCHANGED <<storage_runners, jobs, regs, rn>>

\* Lines 89-90: sleep(1) returns and job.refresh() is called
\* (refresh_calls); it returns (refreshes) or raises. The code goes on to
\* the loop test of line 87 without waiting.
Refresh(r) ==
  /\ req[r].pc = "Sleeping"
  /\ LET slept == [req[r] EXCEPT !.refresh_calls = @ + 1]
     IN \E refresh \in Outcomes :
          IF refresh # "ok"
            THEN Raise(r, refresh, slept)
            ELSE req' = [req EXCEPT ![r] =
                           [slept EXCEPT !.pc = "Polling",
                                         !.refreshes = @ + 1,
                                         !.result = Refreshed(req[r].job).result,
                                         !.job_error = Refreshed(req[r].job).error]]
  /\ UNCHANGED <<storage_runners, jobs, regs, rn>>

\* A timeout that cancels the job in the queue.
TimeOutCancelling(r) ==
  /\ req' = [req EXCEPT ![r].pc = "TimedOut",
                          ![r].response = ErrorResponse(error_messages.query_timeout, 408)]
  /\ jobs' = [jobs EXCEPT ![req[r].job].error = "cancelled"]

\* Lines 94-95: the loop ended with no result. The job is left as it is.
TimeOut(r) ==
  /\ req' = [req EXCEPT ![r].pc = "TimedOut", ![r].response = TimeoutResponse]
  /\ jobs' = jobs

\* Lines 98-103: the result reference is resolved to the stored result.
Resolve(r) ==
  /\ \E fetch \in Outcomes :
       LET query_result == QueryResultGet(req[r].result)
       IN IF fetch # "ok"
            THEN Raise(r, fetch, req[r])
          ELSE IF query_result # {}
            THEN req' = [req EXCEPT ![r].pc = "Resolved",
                                    ![r].response =
                                      SuccessResponse(CHOOSE q \in query_result : TRUE)]
            ELSE req' = [req EXCEPT ![r].pc = "Failed",
                                    ![r].response = MissingResultResponse]
  /\ jobs' = jobs

\* Lines 87, 91-103: the loop has ended. serialize_job(job) of line 91 is
\* called before the timeout check, inside the try block.
Finish(r) ==
  /\ req[r].pc \in {"Enqueued", "Polling"}
  /\ ~LoopContinues(req[r].result, req[r].try_count)
  /\ \E serialize_job \in Outcomes :
       IF serialize_job # "ok"
         THEN Raise(r, serialize_job, req[r]) /\ jobs' = jobs
       ELSE IF req[r].result = None THEN TimeOut(r) ELSE Resolve(r)
  /\ UNCHANGED <<storage_runners, regs, rn>>

\* The worker finishes a job: its result is the id of the stored result.
WorkerFinish(j) ==
  /\ j \in DOMAIN jobs
  /\ jobs[j].result = None /\ jobs[j].error = "none"
  /\ \E ref \in JobResults : jobs' = [jobs EXCEPT ![j].result = ref]
  /\ UNCHANGED <<storage_runners, req, regs, rn>>

\* The backend rejects the job's command as malformed: the runner returns
\* (None, error); the job fails with no result, or its result is the error.
WorkerSyntaxError(j) ==
  /\ j \in DOMAIN jobs
  /\ jobs[j].result = None /\ jobs[j].error = "none"
  /\ \E res \in {None, ErrorValue} :
       jobs' = [jobs EXCEPT ![j].result = res, ![j].error = "syntax"]
  /\ UNCHANGED <<storage_runners, req, regs, rn>>

Next ==
  \/ \E r \in Requests : Submit(r)
  \/ \E r \in Requests : Sleep(r)
  \/ \E r \in Requests : Refresh(r)
  \/ \E r \in Requests : Finish(r)
  \/ \E j \in 1..Cardinality(Requests) : WorkerFinish(j)
  \/ \E j \in 1..Cardinality(Requests) : WorkerSyntaxError(j)

Spec == Init /\ [][Next]_vars

\* post() is running code: while some request has a step to take, a step of
\* some request is taken. Nothing is assumed of the worker, which may leave
\* a job unfinished for ever.
SpecFair ==
  /\ Init
  /\ [][Next]_vars
  /\ WF_vars(\E r \in Requests : Submit(r) \/ Sleep(r) \/ Refresh(r) \/ Finish(r))

\* ------------------------------------------------- the registry on its own

\* The request records of a process that handles no request.
NoRequests ==
  [r \in Requests |->
     [ pc |-> "Validating", body |-> NullBody, enqueues |-> 0, job |-> None,
       result |-> None, job_error |-> "none",
       try_count |-> 0, sleeps |-> 0, refreshes |-> 0,
       raised |-> "none", logged |-> "", response |-> NoResponse ]]

\* storage_runner/__init__.py line 88: storage_runners = {}
InitRegistry ==
  /\ storage_runners = << >>
  /\ regs = << >>
  /\ req = NoRequests
  /\ jobs = << >>
  /\ rn = NoRunner

\* One call register_storage(cls).
Register(cls) ==
  /\ Len(regs) < MaxRegs
  /\ storage_runners' = RegisterStorage(storage_runners, cls)
  /\ regs' = Append(regs, cls)
  /\ UNCHANGED <<req, jobs, rn>>

NextRegistry == \E cls \in RunnerClasses : Register(cls)

SpecRegistry == InitRegistry /\ [][NextRegistry]_vars

\* ---------------------------------------------------- the storage runner

\* Largest number of objects in a bucket of the backend.
MaxObjects == 2

\* Python's None where a bucket name (a string) is expected.
PyNone == "<None>"

\* The buckets the backend holds, and a name it holds no bucket under.
Buckets == {"b1", "b2"}
GhostBucket == "ghost"

\* The runner's configuration: its default bucket (the other fields do not
\* reach the calls modelled here).
Configurations == {[bucket |-> b] : b \in Buckets}

\* The backend behind the Minio client: how many objects each bucket
\* holds, and whether the backend can be reached at all.
Backends == {[count |-> c, down |-> d] : c \in [Buckets -> 0..MaxObjects], d \in BOOLEAN}

Return(v) == [kind |-> "return", value |-> v]
Raised(msg) == [kind |-> "raise", msg |-> msg]

\* The text of a message is the sequence of the parts it was built from;
\* one text contains another when that is one of its contiguous stretches.
Contains(msg, part) ==
  \E i \in 1..(Len(msg) - Len(part) + 1) : SubSeq(msg, i, i + Len(part) - 1) = part

\* The objects client.list_objects(bucket) yields, with the attributes the
\* runner reads.
ObjectsOf(backend, bucket) ==
  [i \in 1..backend.count[bucket] |->
     [object_name |-> <<bucket, i>>, last_modified |-> 20230908 + i,
      size |-> 123 * i, etag |-> <<"etag", bucket, i>>]]

\* self.client.list_objects(bucket_name): the Minio client.
ClientListObjects(backend, bucket) ==
  IF bucket = PyNone \/ bucket = "" THEN Raised(<<"invalid bucket name">>)
  ELSE IF backend.down THEN Raised(<<"Connection refused">>)
  ELSE IF bucket \notin Buckets THEN Raised(<<"NoSuchBucket">>)
  ELSE Return(ObjectsOf(backend, bucket))

\* A list_objects that hands its argument to the client as it is.
ListObjectsNoDefault(cfg, backend, bucket_name) ==
  LET got == ClientListObjects(backend, bucket_name)
  IN [ calls |-> << [bucket |-> bucket_name, ret |-> got] >>,
       ret |-> IF got.kind = "return"
                 THEN Return([i \in DOMAIN got.value |->
                                [name |-> got.value[i].object_name,
                                 last_modified |-> got.value[i].last_modified,
                                 size |-> got.value[i].size,
                                 etag |-> got.value[i].etag]])
                 ELSE Raised(<<"Failed to list objects from bucket ", bucket_name, ": ">>
                             \o got.msg) ]

\* MinioRunner.list_objects, minio.py lines 39-57. The result is what the
\* call returns or raises (ret) and the calls it made to the client.
ListObjects(cfg, backend, bucket_name) ==
  LET target == IF bucket_name = PyNone \/ bucket_name = ""
                  THEN cfg.bucket ELSE bucket_name
      got == ClientListObjects(backend, target)
  IN [ calls |-> << [bucket |-> target, ret |-> got] >>,
       ret |-> IF got.kind = "return"
                 THEN Return([i \in DOMAIN got.value |->
                                [name |-> got.value[i].object_name,
                                 last_modified |-> got.value[i].last_modified,
                                 size |-> got.value[i].size,
                                 etag |-> got.value[i].etag]])
                 ELSE Raised(<<"Failed to list objects from bucket ", target, ": ">>
                             \o got.msg) ]

\* A test_connection that answers False when the listing fails.
TestConnectionReturnsFalse(cfg, backend) ==
  LET lo == ListObjects(cfg, backend, PyNone)
  IN [ calls |-> lo.calls,
       ret |-> IF lo.ret.kind = "return" THEN Return(TRUE) ELSE Return(FALSE) ]

\* MinioRunner.test_connection, minio.py lines 77-87.
TestConnection(cfg, backend) ==
  LET lo == ListObjects(cfg, backend, PyNone)
  IN [ calls |-> lo.calls,
       ret |-> IF lo.ret.kind = "return"
                 THEN Return(TRUE)
                 ELSE Raised(<<"MinIO connection test failed: ">> \o lo.ret.msg) ]

\* BaseStorageRunner.test_connection, __init__.py lines 61-70.
BaseTestConnection(cfg, backend) ==
  LET lo == ListObjects(cfg, backend, PyNone)
  IN [ calls |-> lo.calls,
       ret |-> IF lo.ret.kind = "return"
                 THEN Return(TRUE)
                 ELSE Raised(<<"Failed to connect to the storage: ">> \o lo.ret.msg) ]

\* The command strings run_query is called with.
Queries ==
  { "{\"bucket\": \"b1\"}", "{\"bucket\": \"b2\"}", "{\"bucket\": \"ghost\"}",
    "{\"bucket\": \"\"}", "{\"bucket\": null}", "{}", "[]", "null", "bucket=b1" }

\* json_loads(query): the parsed value, or the error it raises.
JsonLoads(query) ==
  CASE query = "{\"bucket\": \"b1\"}" -> Return([type |-> "dict", keys |-> {"bucket"}, bucket |-> "b1"])
    [] query = "{\"bucket\": \"b2\"}" -> Return([type |-> "dict", keys |-> {"bucket"}, bucket |-> "b2"])
    [] query = "{\"bucket\": \"ghost\"}" -> Return([type |-> "dict", keys |-> {"bucket"}, bucket |-> GhostBucket])
    [] query = "{\"bucket\": \"\"}" -> Return([type |-> "dict", keys |-> {"bucket"}, bucket |-> ""])
    [] query = "{\"bucket\": null}" -> Return([type |-> "dict", keys |-> {"bucket"}, bucket |-> PyNone])
    [] query = "{}" -> Return([type |-> "dict", keys |-> {}, bucket |-> PyNone])
    [] query = "[]" -> Return([type |-> "list", keys |-> {}, bucket |-> PyNone])
    [] query = "null" -> Return([type |-> "NoneType", keys |-> {}, bucket |-> PyNone])
    [] OTHER -> Raised(<<"Expecting value: line 1 column 1 (char 0)">>)

\* query_params.get("bucket", self.configuration.get("bucket"))
GetBucket(cfg, query_params) ==
  IF query_params.type # "dict"
    THEN Raised(<<"'", query_params.type, "' object has no attribute 'get'">>)
  ELSE IF "bucket" \in query_params.keys THEN Return(query_params.bucket)
  ELSE Return(cfg.bucket)

\* minio.py lines 97-102.
MinioColumns ==
  << [name |-> "object_name", type |-> "string"],
     [name |-> "last_modified", type |-> "date"],
     [name |-> "size", type |-> "integer"],
     [name |-> "etag", type |-> "string"] >>

\* Rows built as the base class builds them, without size and etag.
MinioRowsWithoutSizeEtag(objects) ==
  [i \in DOMAIN objects |->
     [object_name |-> objects[i].name, last_modified |-> objects[i].last_modified]]

\* minio.py line 103.
MinioRows(objects) ==
  [i \in DOMAIN objects |->
     [object_name |-> objects[i].name, last_modified |-> objects[i].last_modified,
      size |-> objects[i].size, etag |-> objects[i].etag]]

\* __init__.py lines 80-81.
BaseColumns ==
  << [name |-> "object_name", type |-> "string"],
     [name |-> "last_modified", type |-> "date"] >>

BaseRows(objects) ==
  [i \in DOMAIN objects |->
     [object_name |-> objects[i].name, last_modified |-> objects[i].last_modified]]

\* The two halves of what run_query returns; a half is None (the empty
\* set) or holds its value.
Pair(result, error) == Return([result |-> result, error |-> error])

\* The try block of run_query (minio.py lines 94-105, __init__.py lines
\* 77-83): it returns the data, or raises at the first failing call.
RunQueryTry(cfg, backend, query, columns, rows) ==
  LET query_params == JsonLoads(query)
  IN IF query_params.kind = "raise" THEN [calls |-> << >>, ret |-> query_params]
     ELSE LET bucket_name == GetBucket(cfg, query_params.value)
          IN IF bucket_name.kind = "raise" THEN [calls |-> << >>, ret |-> bucket_name]
             ELSE LET lo == ListObjects(cfg, backend, bucket_name.value)
                  IN IF lo.ret.kind = "raise" THEN lo
                     ELSE [ calls |-> lo.calls,
                            ret |-> Return([columns |-> columns,
                                            rows |-> IF rows = "minio"
                                                       THEN MinioRows(lo.ret.value)
                                                       ELSE BaseRows(lo.ret.value)]) ]

\* A run_query whose json_loads stands before the try block.
RunQueryParsesOutsideTry(cfg, backend, query) ==
  LET t == RunQueryTry(cfg, backend, query, MinioColumns, "minio")
  IN [ calls |-> t.calls,
       ret |-> IF t.ret.kind = "return" THEN Pair({t.ret.value}, {})
               ELSE IF JsonLoads(query).kind = "raise" THEN t.ret
               ELSE Pair({}, {t.ret.msg}) ]

\* MinioRunner.run_query, minio.py lines 89-108: except Exception turns
\* whatever the try block raised into (None, str(e)).
RunQuery(cfg, backend, query) ==
  LET t == RunQueryTry(cfg, backend, query, MinioColumns, "minio")
  IN [ calls |-> t.calls,
       ret |-> IF t.ret.kind = "return" THEN Pair({t.ret.value}, {})
               ELSE Pair({}, {t.ret.msg}) ]

\* BaseStorageRunner.run_query, __init__.py lines 72-85.
BaseRunQuery(cfg, backend, query) ==
  LET t == RunQueryTry(cfg, backend, query, BaseColumns, "base")
  IN [ calls |-> t.calls,
       ret |-> IF t.ret.kind = "return" THEN Pair({t.ret.value}, {})
               ELSE Pair({}, {t.ret.msg}) ]

\* A runner instance with its configuration and backend, before any call.
InitRunner ==
  /\ \E cfg \in Configurations, backend \in Backends :
       rn = [op |-> "init", config |-> cfg, backend |-> backend,
             arg |-> PyNone, calls |-> << >>, ret |-> Return(TRUE)]
  /\ storage_runners = RegisterStorage(<< >>, MinioRunner(TRUE))
  /\ regs = << MinioRunner(TRUE) >>
  /\ req = NoRequests
  /\ jobs = << >>

\* One call of a method of the runner; rn keeps what it was called with,
\* the calls it made to the client and what it returned or raised.
Called(op, arg, done) ==
  /\ rn' = [rn EXCEPT !.op = op, !.arg = arg, !.calls = done.calls, !.ret = done.ret]
  /\ UNCHANGED <<storage_runners, regs, req, jobs>>

CallListObjects ==
  \E bucket_name \in Buckets \cup {GhostBucket, "", PyNone} :
    Called("list_objects", bucket_name, ListObjects(rn.config, rn.backend, bucket_name))

CallTestConnection ==
  Called("test_connection", PyNone, TestConnection(rn.config, rn.backend))

CallBaseTestConnection ==
  Called("base_test_connection", PyNone, BaseTestConnection(rn.config, rn.backend))

CallRunQuery ==
  \E query \in Queries :
    Called("run_query", query, RunQuery(rn.config, rn.backend, query))

CallBaseRunQuery ==
  \E query \in Queries :
    Called("base_run_query", query, BaseRunQuery(rn.config, rn.backend, query))

NextRunner ==
  \/ CallListObjects
  \/ CallTestConnection
  \/ CallBaseTestConnection
  \/ CallRunQuery
  \/ CallBaseRunQuery

SpecRunner == InitRunner /\ [][NextRunner]_vars

\* ------------------------------------------------------------------ claims

Terminal(r) == req[r].pc \in {"Resolved", "TimedOut", "Rejected", "Failed"}

HasBothFields(b) == ~b.null /\ "query" \in b.keys /\ "db_name" \in b.keys

KnownDbNames == {d.name : d \in DataSources}

Fail(code, message) == [code |-> code, status |-> "fail", message |-> message]

\* C1: a request that saw no result at the initial check and after each of
\* the 10 refreshes, none of whose calls raised, answers 408 "Query
\* execution timeout." and ends in TimedOut; no request sleeps or refreshes
\* an 11th time.
C1_TimeoutAfterBudget ==
  \A r \in Requests :
    /\ req[r].refreshes <= 10
    /\ req[r].sleeps <= 10
    /\ (Terminal(r) /\ req[r].refreshes = 10 /\ req[r].result = None
        /\ req[r].raised = "none")
         => /\ req[r].pc = "TimedOut"
            /\ req[r].response = Fail(408, "Query execution timeout.")
            /\ HasBothFields(req[r].body)
            /\ req[r].body.db_name \in KnownDbNames

C1_Witness ==
  \E r \in Requests :
    /\ req[r].pc = "TimedOut"
    /\ req[r].refreshes = 10
    /\ req[r].response.code = 408

\* C2: a request whose job reported a result reference, at once or at a
\* refresh within the budget, under which a result is stored, and whose
\* fetch returned, answers 200 "success" with exactly the rows of that
\* stored result and nothing of its columns.
C2_SuccessRows ==
  \A r \in Requests :
    (Terminal(r) /\ req[r].raised = "none" /\ req[r].result \in ResultRefs)
      => /\ req[r].pc = "Resolved"
         /\ req[r].response = [code |-> 200, status |-> "success",
                               result |-> QueryResultData(req[r].result).rows]

C2_Witness ==
  \E r \in Requests :
    /\ req[r].pc = "Resolved"
    /\ req[r].refreshes = 10
    /\ req[r].result = 2
    /\ req[r].response.code = 200
    /\ Len(req[r].response.result) = 2

\* C3: the rejection message follows from exactly which of query and
\* db_name the body lacks: both missing gives the missing-fields message,
\* only query missing the missing-query message, only db_name missing the
\* missing-db_name message.
C3_ValidationSpecificity ==
  \A r \in Requests :
    (Terminal(r) /\ req[r].raised = "none")
      => LET q == "query" \in req[r].body.keys
             d == "db_name" \in req[r].body.keys
         IN /\ (~q /\ ~d) => req[r].response =
                  Fail(400, "Request must include 'query' and 'db_name' fields.")
            /\ (~q /\ d) => req[r].response =
                  Fail(400, "Request must include 'query' fields.")
            /\ (q /\ ~d) => req[r].response =
                  Fail(400, "Request must include 'db_name' fields.")

\* C4: a request naming a data source whose type has no runner in the
\* registry never enqueues and answers 404 "Database name not found.".
C4_UnregisteredNeverEnqueued ==
  \A r \in Requests :
    LET found == {d \in DataSources : d.name = req[r].body.db_name}
    IN (HasBothFields(req[r].body) /\ found # {}
        /\ \A d \in found : d.type \notin DOMAIN storage_runners)
         => /\ req[r].enqueues = 0
            /\ (Terminal(r) /\ req[r].raised = "none")
                 => req[r].response = Fail(404, "Database name not found.")

\* C5: a request steps from Validating to Enqueued to Polling (sleeping and
\* refreshing in turn) to a terminal state and never back; a request whose body lacks a field or names no
\* data source enqueues no job, never sleeps and never refreshes, and is
\* answered 400 or 404 "Database name not found."; no request enqueues
\* more than one job, and the queue holds exactly the jobs of the requests
\* that were enqueued.
C5_Order ==
  \A r \in Requests :
    LET a == req[r].pc
        b == req'[r].pc
    IN /\ a = "Validating" => b \in {"Validating", "Rejected", "Failed", "Enqueued"}
       /\ a = "Enqueued" => b \in {"Enqueued", "Sleeping", "Resolved", "TimedOut", "Failed"}
       /\ a = "Sleeping" => b \in {"Sleeping", "Polling", "Failed"}
       /\ a = "Polling" => b \in {"Polling", "Sleeping", "Resolved", "TimedOut", "Failed"}
       /\ Terminal(r) => b = a
       /\ req'[r].enqueues > req[r].enqueues => a = "Validating"
       /\ (req'[r].sleeps > req[r].sleeps \/ req'[r].refreshes > req[r].refreshes)
            => a \in {"Enqueued", "Sleeping", "Polling"}

C5_NoSideEffects ==
  /\ \A r \in Requests :
       /\ req[r].enqueues <= 1
       /\ (~HasBothFields(req[r].body) \/ req[r].body.db_name \notin KnownDbNames)
            => /\ req[r].enqueues = 0 /\ req[r].job = None
               /\ req[r].sleeps = 0 /\ req[r].refreshes = 0
               /\ (Terminal(r) /\ req[r].raised = "none")
                    => /\ req[r].pc = "Rejected"
                       /\ IF HasBothFields(req[r].body)
                            THEN req[r].response = Fail(404, "Database name not found.")
                            ELSE req[r].response.code = 400
       /\ req[r].pc = "Rejected"
            => req[r].enqueues = 0 /\ req[r].sleeps = 0 /\ req[r].refreshes = 0
       /\ req[r].pc \in {"Enqueued", "Sleeping", "Polling", "Resolved", "TimedOut"}
            => req[r].enqueues = 1 /\ req[r].job \in DOMAIN jobs
  /\ Len(jobs) = Cardinality({r \in Requests : req[r].job # None})

C5_RejectedNoSideEffects == []C5_NoSideEffects /\ [][C5_Order]_vars

C5_Witness ==
  \E r, s \in Requests :
    /\ req[r].pc = "Rejected" /\ req[r].response.code = 404
    /\ req[s].pc = "TimedOut"
    /\ Len(jobs) = 1

\* C6: a request whose job reported a result under which nothing is stored,
\* and whose fetch returned, answers 500 "Query execution failed." and not
\* the timeout; the 408 timeout is answered only by a request that never
\* saw a result.
C6_MissingResultIsNotTimeout ==
  \A r \in Requests :
    /\ (Terminal(r) /\ req[r].raised = "none"
        /\ req[r].result # None /\ req[r].result \notin ResultRefs)
         => /\ req[r].response = Fail(500, "Query execution failed.")
            /\ req[r].pc # "TimedOut"
    /\ (req[r].response.code = 408 \/ req[r].pc = "TimedOut")
         => /\ req[r].result = None
            /\ req[r].response = Fail(408, "Query execution timeout.")

C6_Witness ==
  \E r \in Requests :
    /\ req[r].pc = "Failed"
    /\ req[r].raised = "none"
    /\ req[r].result = MissingRef
    /\ req[r].refreshes >= 1
    /\ req[r].response.code = 500

\* C7: a request that saw its job fail with a syntax error of the backend
\* answers 400 "SQL syntax error.".
C7_SyntaxErrorSurfaced ==
  \A r \in Requests :
    (Terminal(r) /\ req[r].job_error = "syntax")
      => req[r].response = Fail(400, "SQL syntax error.")

\* C8: a request has a response exactly when it has ended, and the response
\* is 200 "success" with the rows of a stored result, or "fail" with one of
\* the eight messages under its fixed code; the text of an exception never
\* is the message.
FailResponses ==
  { Fail(400, "Request must include 'query' and 'db_name' fields."),
    Fail(400, "Request must include 'query' fields."),
    Fail(400, "Request must include 'db_name' fields."),
    Fail(400, "SQL syntax error."),
    Fail(404, "Database name not found."),
    Fail(408, "Query execution timeout."),
    Fail(500, "Query execution failed."),
    Fail(500, "Internal server error occurred. Please try again later.") }

SuccessResponses ==
  { [code |-> 200, status |-> "success", result |-> QueryResultData(id).rows] :
      id \in ResultRefs }

C8_ClosedTaxonomy ==
  \A r \in Requests :
    /\ ~Terminal(r) => req[r].response = NoResponse
    /\ Terminal(r) => req[r].response \in FailResponses \cup SuccessResponses
    /\ req[r].raised # "none"
         => /\ req[r].response.status = "fail"
            /\ req[r].response.message # req[r].logged
            /\ req[r].response.message \notin {ExceptionText(e) : e \in Outcomes}

C8_Witness ==
  \E r, s \in Requests :
    /\ req[r].raised = "ProgrammingError"
    /\ req[r].response = Fail(400, "SQL syntax error.")
    /\ req[s].raised = "Exception"
    /\ req[s].response.code = 500

\* C9: no step of a request changes or removes a job that is in the queue
\* (only the worker does), and a request that has ended keeps its response
\* whatever its job does later.
C9_ClientStep ==
  /\ \A j \in DOMAIN jobs :
       /\ j \in DOMAIN jobs'
       /\ jobs'[j] # jobs[j] => req' = req
  /\ \A r \in Requests : Terminal(r) => req'[r] = req[r]

C9_NoClientMutation == [][C9_ClientStep]_vars

C9_Witness ==
  \E r \in Requests :
    /\ req[r].pc = "TimedOut"
    /\ req[r].response = Fail(408, "Query execution timeout.")
    /\ jobs[req[r].job].result \in ResultRefs

\* C10: what a request sees and answers comes from the job it enqueued
\* itself: requests have distinct jobs, every refresh reads the request's
\* own job, a resolved request answers the rows stored under its own job's
\* result, a timed-out request used its own budget of 10 refreshes, and a
\* step changes at most one request.
C10_OwnJob ==
  \A r \in Requests :
    req[r].job # None
      => /\ req[r].job \in DOMAIN jobs
         /\ \A s \in Requests \ {r} : req[s].job # req[r].job
         /\ req[r].result # None => req[r].result = jobs[req[r].job].result
         /\ req[r].job_error # "none" => req[r].job_error = jobs[req[r].job].error
         /\ req[r].pc = "Resolved"
              => req[r].response.result = QueryResultData(jobs[req[r].job].result).rows
         /\ req[r].pc = "TimedOut" => req[r].refreshes = 10 /\ req[r].result = None

C10_Step ==
  \A r \in Requests :
    /\ req'[r].refreshes > req[r].refreshes
         => /\ req'[r].result = jobs[req[r].job].result
            /\ req'[r].job_error = jobs[req[r].job].error
    /\ req'[r] # req[r] => \A s \in Requests \ {r} : req'[s] = req[s]

C10_JobIndependence == []C10_OwnJob /\ [][C10_Step]_vars

C10_Witness ==
  \E r, s \in Requests :
    /\ req[r].pc = "Resolved" /\ req[s].pc = "TimedOut"
    /\ req[r].job > req[s].job
    /\ jobs[req[s].job].result \in ResultRefs
    /\ jobs[req[s].job].result # jobs[req[r].job].result

\* C11: after any calls of register_storage, a type is in the registry
\* exactly when an enabled class of that type was registered, and it maps
\* to the class of the most recent such call; registering again the class
\* the registry already holds under its type changes nothing.
EnabledCalls(t) == {i \in 1..Len(regs) : regs[i].type = t /\ regs[i].enabled}

Latest(idx) == CHOOSE i \in idx : \A k \in idx : k <= i

C11_LastWins ==
  \A t \in RunnerTypes :
    /\ t \in DOMAIN storage_runners <=> EnabledCalls(t) # {}
    /\ EnabledCalls(t) # {} => storage_runners[t] = regs[Latest(EnabledCalls(t))]

C11_Idempotent ==
  Len(regs') = Len(regs) + 1
    => LET cls == regs'[Len(regs')]
       IN (cls.type \in DOMAIN storage_runners /\ storage_runners[cls.type] = cls)
            => storage_runners' = storage_runners

C11_RegistryLastWriterWins == []C11_LastWins /\ [][C11_Idempotent]_vars

C11_Witness ==
  /\ Len(regs) = 3
  /\ regs[1] = MinioRunner(TRUE)
  /\ regs[2].type = "minio" /\ regs[2].enabled /\ regs[2] # regs[1]
  /\ regs[3] = regs[2]
  /\ storage_runners["minio"] = regs[2]

\* C12: register_storage(cls) puts cls under cls.type() exactly when
\* cls.enabled(); a class that is not enabled leaves the whole registry as
\* it was, an entry of its type included; entries of other types never
\* change.
C12_Step ==
  Len(regs') = Len(regs) + 1
    => LET cls == regs'[Len(regs')]
       IN /\ cls.enabled
               => cls.type \in DOMAIN storage_runners' /\ storage_runners'[cls.type] = cls
          /\ ~cls.enabled => storage_runners' = storage_runners
          /\ \A t \in RunnerTypes \ {cls.type} :
               /\ t \in DOMAIN storage_runners' <=> t \in DOMAIN storage_runners
               /\ t \in DOMAIN storage_runners => storage_runners'[t] = storage_runners[t]

C12_ConditionalRegistration == [][C12_Step]_vars

C12_Witness ==
  /\ Len(regs) = 3
  /\ regs[1].type = "s3"
  /\ regs[2] = MinioRunner(TRUE)
  /\ regs[3].type = "minio" /\ ~regs[3].enabled
  /\ storage_runners["minio"] = MinioRunner(TRUE)
  /\ DOMAIN storage_runners = {"minio", "s3"}

\* C13: run_query, of the MinIO runner and of the base class, never raises:
\* for every command (a JSON object, JSON that is no object, malformed
\* text) and every backend it returns a pair with exactly one half that is
\* not None, and a command that is not a JSON object gives the error half.
C13_RunQueryNeverRaises ==
  rn.op \in {"run_query", "base_run_query"}
    => /\ rn.ret.kind = "return"
       /\ Cardinality(rn.ret.value.result) + Cardinality(rn.ret.value.error) = 1
       /\ rn.arg \in {"bucket=b1", "[]", "null"}
            => rn.ret.value.result = {} /\ rn.ret.value.error # {}
       /\ (\E i \in 1..Len(rn.calls) : rn.calls[i].ret.kind = "raise")
            => rn.ret.value.result = {} /\ rn.ret.value.error # {}

C13_Witness ==
  /\ rn.op = "run_query"
  /\ rn.arg = "bucket=b1"
  /\ rn.ret.kind = "return"
  /\ rn.ret.value.result = {}
  /\ rn.ret.value.error = {<<"Expecting value: line 1 column 1 (char 0)">>}

\* C14: in every result of the MinIO runner's run_query the keys of every
\* row are exactly the names of the declared columns (object_name,
\* last_modified, size, etag), and the rows are the listed objects in the
\* client's order, each with its object's name, last_modified, size, etag.
C14_ColumnsRowsLockStep ==
  (rn.op = "run_query" /\ rn.ret.kind = "return" /\ rn.ret.value.result # {})
    => LET data == CHOOSE d \in rn.ret.value.result : TRUE
           names == {data.columns[i].name : i \in 1..Len(data.columns)}
           listed == rn.calls[1].ret.value
       IN /\ names = {"object_name", "last_modified", "size", "etag"}
          /\ Len(data.columns) = 4
          /\ Len(rn.calls) = 1
          /\ Len(data.rows) = Len(listed)
          /\ \A i \in 1..Len(data.rows) :
               /\ DOMAIN data.rows[i] = names
               /\ data.rows[i].object_name = listed[i].object_name
               /\ data.rows[i].last_modified = listed[i].last_modified
               /\ data.rows[i].size = listed[i].size
               /\ data.rows[i].etag = listed[i].etag

C14_Witness ==
  /\ rn.op = "run_query"
  /\ rn.arg = "{\"bucket\": \"b2\"}"
  /\ rn.ret.kind = "return"
  /\ \E d \in rn.ret.value.result :
       /\ Len(d.rows) = 2
       /\ d.rows[2] = [object_name |-> <<"b2", 2>>, last_modified |-> 20230910,
                       size |-> 246, etag |-> <<"etag", "b2", 2>>]

\* C15: every target given to a call, the empty string included (the
\* bucket_name argument of list_objects, the "bucket" member of the
\* run_query command), is the bucket the client is asked to list.
C15_ExplicitTargetWins ==
  /\ (rn.op = "list_objects" /\ rn.arg # PyNone)
       => Len(rn.calls) = 1 /\ rn.calls[1].bucket = rn.arg
  /\ (rn.op \in {"run_query", "base_run_query"}
      /\ rn.arg \in {"{\"bucket\": \"b1\"}", "{\"bucket\": \"b2\"}",
                     "{\"bucket\": \"ghost\"}", "{\"bucket\": \"\"}"})
       => Len(rn.calls) = 1 /\ rn.calls[1].bucket = JsonLoads(rn.arg).value.bucket

\* C16: list_objects() with no target makes exactly one listing call to the
\* client, for the configured default bucket, and returns or raises what
\* list_objects(default bucket) does.
C16_DefaultTargetEquivalence ==
  (rn.op = "list_objects" /\ rn.arg = PyNone)
    => /\ Len(rn.calls) = 1
       /\ rn.calls[1].bucket = rn.config.bucket
       /\ rn.ret = ListObjects(rn.config, rn.backend, rn.config.bucket).ret
       /\ rn.calls = ListObjects(rn.config, rn.backend, rn.config.bucket).calls

C16_Witness ==
  /\ rn.op = "list_objects" /\ rn.arg = PyNone
  /\ rn.config.bucket = "b2"
  /\ rn.ret.kind = "return"
  /\ Len(rn.ret.value) = 2
  /\ rn.ret.value[1].name = <<"b2", 1>>

\* C17: test_connection, of the MinIO runner and of the base class, returns
\* True exactly when the one listing of the default bucket succeeds;
\* when the listing fails it raises one error whose message contains the
\* message of the listing's error and of the client's; it never returns
\* False.
C17_TestConnection ==
  rn.op \in {"test_connection", "base_test_connection"}
    => /\ Len(rn.calls) = 1
       /\ rn.calls[1].bucket = rn.config.bucket
       /\ rn.calls[1].ret.kind = "return" <=> rn.ret = Return(TRUE)
       /\ rn.ret.kind = "return" => rn.ret.value = TRUE
       /\ rn.calls[1].ret.kind = "raise"
            => /\ rn.ret.kind = "raise"
               /\ Contains(rn.ret.msg, rn.calls[1].ret.msg)
               /\ Contains(rn.ret.msg,
                           <<"Failed to list objects from bucket ", rn.config.bucket, ": ">>
                           \o rn.calls[1].ret.msg)

C17_Witness ==
  /\ rn.op = "test_connection"
  /\ rn.backend.down
  /\ rn.ret = Raised(<<"MinIO connection test failed: ",
                       "Failed to list objects from bucket ", rn.config.bucket, ": ",
                       "Connection refused">>)

\* C18: sleeps and calls of refresh alternate, a sleep first: the sleeps
\* begun equal try_count, at most 10, and equal the calls of refresh except
\* while the request waits in a sleep, where they are one ahead; so every
\* ended request has slept as often as it has called refresh. The refreshes
\* that returned fall short of the calls only by a last refresh that
\* raised. The client sleeps and refreshes only while it has seen no
\* result, so a result present after enqueue means no sleep and no refresh,
\* and a result first seen at refresh k ends the loop there: the next step
\* of the request is the resolution, never a timeout, also for k = 10; a
\* timeout is answered only after 10 sleeps and 10 refreshes without a
\* result.
C18_Counts ==
  \A r \in Requests :
    /\ req[r].sleeps = req[r].try_count
    /\ req[r].sleeps <= 10
    /\ req[r].pc # "Sleeping" => req[r].sleeps = req[r].refresh_calls
    /\ req[r].pc = "Sleeping"
         => req[r].sleeps = req[r].refresh_calls + 1 /\ req[r].result = None
    /\ req[r].refreshes <= req[r].refresh_calls
    /\ req[r].refresh_calls <= req[r].refreshes + 1
    /\ req[r].refreshes # req[r].refresh_calls
         => req[r].pc = "Failed" /\ req[r].raised # "none"
    /\ req[r].pc = "Enqueued" => req[r].sleeps = 0
    /\ req[r].pc = "TimedOut"
         => req[r].sleeps = 10 /\ req[r].refreshes = 10 /\ req[r].result = None
    /\ (Terminal(r) /\ req[r].result # None)
         => req[r].pc # "TimedOut" /\ req[r].response.code # 408

C18_Step ==
  \A r \in Requests :
    /\ req'[r].sleeps # req[r].sleeps
         => /\ req[r].result = None
            /\ req[r].sleeps = req[r].refresh_calls
            /\ req'[r].sleeps = req[r].sleeps + 1
            /\ req'[r].refresh_calls = req[r].refresh_calls
    /\ req'[r].refresh_calls # req[r].refresh_calls
         => /\ req[r].result = None
            /\ req[r].sleeps = req[r].refresh_calls + 1
            /\ req'[r].refresh_calls = req[r].refresh_calls + 1
            /\ req'[r].sleeps = req[r].sleeps
    /\ req[r].result # None
         => /\ req'[r].sleeps = req[r].sleeps
            /\ req'[r].refresh_calls = req[r].refresh_calls
            /\ req'[r].refreshes = req[r].refreshes
            /\ req'[r].result = req[r].result
            /\ req'[r] # req[r]
                 => req'[r].pc \in {"Resolved", "Failed"}

C18_PollLoopAccounting == []C18_Counts /\ [][C18_Step]_vars

C18_Witness ==
  \E r1, r2 \in Requests :
    /\ req[r1].pc = "Resolved"
    /\ req[r1].sleeps = 10 /\ req[r1].refreshes = 10
    /\ req[r1].result \in ResultRefs
    /\ req[r2].pc = "Resolved"
    /\ req[r2].sleeps = 0 /\ req[r2].refreshes = 0

\* C19: every request ends, whatever the worker does and also when its job
\* never finishes: a request that has not answered can always take a step,
\* every step of a request lowers a measure that is at most 22, and under
\* the fairness of the handler's own steps each request reaches a terminal
\* state. A request has a response exactly when it is terminal, a terminal
\* request never changes again (one response), and an exception raised by
\* a call ends in a fail response of an except clause, not in the caller.
Measure(locals) ==
  IF locals.pc = "Validating" THEN 2 * 10 + 2
  ELSE IF locals.pc = "Sleeping" THEN 2 * (10 - locals.try_count) + 2
  ELSE IF locals.pc \in {"Enqueued", "Polling"} THEN 2 * (10 - locals.try_count) + 1
  ELSE 0

C19_Inv ==
  \A r \in Requests :
    /\ Terminal(r) <=> req[r].response # NoResponse
    /\ Terminal(r) => req[r].response.code \in {200, 400, 404, 408, 500}
    /\ ~Terminal(r)
         => /\ Measure(req[r]) >= 1
            /\ ENABLED (Submit(r) \/ Sleep(r) \/ Refresh(r) \/ Finish(r))
    /\ req[r].raised # "none"
         => /\ req[r].pc = "Failed"
            /\ req[r].response \in
                 {Fail(400, "SQL syntax error."),
                  Fail(500, "Internal server error occurred. Please try again later.")}

C19_Step ==
  \A r \in Requests :
    req'[r] # req[r]
      => /\ ~Terminal(r)
         /\ Measure(req'[r]) < Measure(req[r])

C19_BoundedTermination ==
  /\ []C19_Inv
  /\ [][C19_Step]_vars
  /\ <>(\A r \in Requests : Terminal(r))

C19_Witness ==
  \E r1, r2 \in Requests :
    /\ req[r1].pc = "TimedOut"
    /\ jobs[req[r1].job].result = None /\ jobs[req[r1].job].error = "none"
    /\ req[r1].response.code = 408
    /\ req[r2].pc = "Failed"
    /\ req[r2].raised = "Exception"
    /\ req[r2].sleeps >= 1
    /\ req[r2].response.code = 500

====
